---- MODULE Spec2Model ----
(***************************************************************************)
(* FixedThreadPoolExecutor and ThreadedWorker of src/file_tree/utils.py.   *)
(*                                                                         *)
(* One client thread calls the public operations of one executor; the      *)
(* worker threads created by the constructor run ThreadedWorker.run.       *)
(* A step of the model is one atomic step of one thread: a queue           *)
(* operation (queue.Queue is internally locked), the call of a task's      *)
(* callable together with the dict store of its outcome, or the evaluation *)
(* of a loop condition.                                                    *)
(*                                                                         *)
(* Specifications:                                                         *)
(*   Spec         the client calls any operation, workers inside get()     *)
(*   FairSpec     Spec with scheduled threads                              *)
(*   StartSpec    Spec from the moment the worker threads are started      *)
(*   ScopeSpec    the executor built and closed by a with statement        *)
(*   SubmitSpec   several threads inside submit() at the same time         *)
(*   BarrierSpec  two tasks that each wait for the other to have started   *)
(***************************************************************************)
EXTENDS Integers, Sequences, FiniteSets, TLC

(* Bounds of the model. *)
PoolSize == 2          \* largest size argument given to the constructor
MaxTasks == 2          \* submit() calls explored
MaxCyanide == 1        \* sentinels allowed to sit in the queue at once
MaxSubmitters == 2     \* threads calling submit() concurrently (SubmitSpec)

VARIABLES
    task_count,            \* self.task_count
    _returns,              \* self._returns: dict, kept in insertion order
    _exceptions,           \* self._exceptions: dict, kept in insertion order
    _id_creator,           \* next value of itertools.count()
    _tasks,                \* items of the Queue, head first
    unfinished_tasks,      \* Queue.unfinished_tasks, what join() waits on
    _run_event,            \* self._run_event (Event flag)
    _workers,              \* self._workers: the list, or None
    keyboard_interrupted,  \* per worker flag
    wpc,                   \* per worker: position in run(); "absent": not created
    wtask,                 \* per worker: the task tuple of this loop iteration
    began_flagged,         \* per worker, history: a shutdown flag was set
                           \* when the loop iteration in progress began
    cpc,                   \* client: position inside a blocking call
    call,                  \* client: the public operation in progress
    ti,                    \* client: index of terminate()'s for loop
    ret,                   \* client: how the last completed call ended
    shutdown_called,       \* close(), stop() or terminate() was ever called
    scope,                 \* client: position relative to a with statement
    sub,                   \* per submitter thread: its position in submit()
    issued                 \* history: the values next(self._id_creator) gave

vars == <<task_count, _returns, _exceptions, _id_creator, _tasks,
          unfinished_tasks, _run_event, _workers, keyboard_interrupted,
          wpc, wtask, began_flagged, cpc, call, ti, ret, shutdown_called, scope, sub,
          issued>>

Workers == 1..PoolSize

Submitters == 1..MaxSubmitters

(* A submitter thread outside submit(). *)
NotSubmitting == [pc |-> "idle", loc |-> 0, id |-> -1, func |-> "none"]

(* Callables the client submits: the docstring's sum(value, value), and a  *)
(* callable raising ValueError(value).                                     *)
Funcs == {"sum", "fail"}

_CYANIDE == [kind |-> "cyanide", id |-> -1, func |-> "none", args |-> 0]

NoTask == [kind |-> "none", id |-> -1, func |-> "none", args |-> 0]

Task(id, func, args) == [kind |-> "task", id |-> id, func |-> func, args |-> args]

WorkersNone == [none |-> TRUE, list |-> <<>>]

WorkersList(l) == [none |-> FALSE, list |-> l]

(* How a call ended: the exception it raised ("none": it returned), the     *)
(* task error raise_first() re-raised, and, for raise_first(), whether the *)
(* call the client had completed just before it was drain().               *)
Ret(op, raised, err) ==
    [op |-> op, raised |-> raised, err |-> err, after_drain |-> FALSE,
     val |-> "None"]

\* The call of a task's callable: it returns a value or raises an Exception.
CallFunc(func, args) ==
    IF func = "sum" THEN [ok |-> TRUE, val |-> args + args]
    ELSE IF func = "barrier" THEN [ok |-> TRUE, val |-> args]
    ELSE [ok |-> FALSE, val |-> args]

(***************************************************************************)
(* dict: a sequence of <<key, value>> pairs in insertion order.            *)
(***************************************************************************)
DictKeys(d) == [i \in 1..Len(d) |-> d[i][1]]

DictHas(d, k) == \E i \in 1..Len(d) : d[i][1] = k

DictGet(d, k) == d[CHOOSE i \in 1..Len(d) : d[i][1] = k][2]

DictSet(d, k, v) ==
    IF DictHas(d, k)
    THEN [i \in 1..Len(d) |-> IF d[i][1] = k THEN <<k, v>> ELSE d[i]]
    ELSE Append(d, <<k, v>>)

(* sorted() left out: the keys in the dict's own (insertion) order. *)
unsorted(s) == s

(* sorted(): ascending, by insertion into an ordered result. *)
RECURSIVE InsertSorted(_, _)
InsertSorted(s, x) ==
    IF s = <<>> THEN <<x>>
    ELSE IF x < Head(s) THEN <<x>> \o s
    ELSE <<Head(s)>> \o InsertSorted(Tail(s), x)

RECURSIVE SortedFrom(_, _)
SortedFrom(acc, s) ==
    IF s = <<>> THEN acc ELSE SortedFrom(InsertSorted(acc, Head(s)), Tail(s))

sorted(s) == SortedFrom(<<>>, s)

(* The order in which a view walks the keys of its dict. *)
ViewKeys(d) == sorted(DictKeys(d))

(* [d[k] for k in sorted(d)] *)
View(d) == LET ks == ViewKeys(d) IN [i \in 1..Len(ks) |-> DictGet(d, ks[i])]

returns == View(_returns)

exceptions == View(_exceptions)

(* Thread.is_alive() *)
WorkerAlive(w) == wpc[w] \notin {"dead", "absent"}

(* is_alive with all() for any(): true only if every worker is alive. *)
is_alive_all ==
    IF _workers.none THEN "TypeError"
    ELSE IF \A i \in 1..Len(_workers.list) : WorkerAlive(_workers.list[i])
    THEN "True" ELSE "False"

(* The is_alive property: `for worker in self._workers` raises TypeError  *)
(* when self._workers is None.                                            *)
is_alive ==
    IF _workers.none THEN "TypeError"
    ELSE IF \E i \in 1..Len(_workers.list) : WorkerAlive(_workers.list[i])
    THEN "True" ELSE "False"

(* RunBreaks testing `_execute_next_task() is None`: a sentinel's False   *)
(* does not end the loop.                                                 *)
RunBreaksOnNone(res, interrupted, event) ==
    res = "None" \/ interrupted \/ event

(* The condition of run()'s `if ...: break`. *)
RunBreaks(res, interrupted, event) == res # "True" \/ interrupted \/ event

CyanideQueued == Cardinality({i \in 1..Len(_tasks) : _tasks[i].kind = "cyanide"})

(***************************************************************************)
(* __init__                                                                *)
(***************************************************************************)
InitAt(first) ==
    \E size \in 1..PoolSize :
    /\ task_count = 0
    /\ _returns = <<>>
    /\ _exceptions = <<>>
    /\ _id_creator = 0
    /\ _tasks = <<>>
    /\ unfinished_tasks = 0
    /\ _run_event = FALSE
    /\ _workers = WorkersList([i \in 1..size |-> i])
    /\ keyboard_interrupted = [w \in Workers |-> FALSE]
    /\ wpc = [w \in Workers |-> IF w <= size THEN first ELSE "absent"]
    /\ wtask = [w \in Workers |-> NoTask]
    /\ began_flagged = [w \in Workers |-> FALSE]
    /\ cpc = "idle"
    /\ call = "none"
    /\ ti = 0
    /\ ret = Ret("init", "none", -1)
    /\ shutdown_called = FALSE
    /\ scope = "out"
    /\ sub = [s \in Submitters |-> NotSubmitting]
    /\ issued = <<>>

(* The state after construction, each worker thread inside the get() of   *)
(* its first loop iteration.                                              *)
Init == InitAt("get")

(* The state after construction, each worker thread started (self.start()) *)
(* and not yet at the first statement of run().                            *)
StartInit == InitAt("start")

submitVars == <<sub, issued>>
workerVars == <<wpc, wtask, began_flagged>>
clientVars == <<cpc, call, ti, ret, shutdown_called, scope>>
poolVars == <<_run_event, _workers, keyboard_interrupted>>
resultVars == <<_returns, _exceptions>>
queueVars == <<_tasks, unfinished_tasks>>

(***************************************************************************)
(* Worker thread                                                           *)
(***************************************************************************)

(* After _execute_next_task returned res, run() breaks or loops. *)
AfterNextTask(w, res) ==
    IF RunBreaks(res, keyboard_interrupted[w], _run_event) THEN "dead" ELSE "get"

(* The thread started by the constructor (self.start()) comes to run():  *)
(* the first iteration of `while True` begins with the call of            *)
(* _execute_next_task, which enters self._tasks.get(); no flag is read.   *)
(* Later iterations begin in the step that found the flags clear (Check). *)
Begin(w) ==
    /\ wpc[w] = "start"
    /\ wpc' = [wpc EXCEPT ![w] = "get"]
    /\ began_flagged' =
           [began_flagged EXCEPT ![w] = keyboard_interrupted[w] \/ _run_event]
    /\ UNCHANGED <<submitVars, task_count, _id_creator, queueVars, resultVars,
                   poolVars, clientVars, wtask>>

(* Get reading the head of the queue without taking it off. *)
GetLeavesItem(w) ==
    /\ wpc[w] = "get"
    /\ _tasks # <<>>
    /\ IF Head(_tasks) = _CYANIDE
       THEN /\ wpc' = [wpc EXCEPT ![w] = AfterNextTask(w, "False")]
            /\ UNCHANGED wtask
       ELSE /\ wtask' = [wtask EXCEPT ![w] = Head(_tasks)]
            /\ wpc' = [wpc EXCEPT ![w] = "exec"]
    /\ UNCHANGED <<submitVars, task_count, _id_creator, queueVars, resultVars, poolVars,
                   clientVars, began_flagged>>

(* _execute_next_task: self._tasks.get(timeout) delivers an item. A       *)
(* sentinel makes it return False to run(); a task is executed.           *)
Get(w) ==
    /\ wpc[w] = "get"
    /\ _tasks # <<>>
    /\ _tasks' = Tail(_tasks)
    /\ IF Head(_tasks) = _CYANIDE
       THEN /\ wpc' = [wpc EXCEPT ![w] = AfterNextTask(w, "False")]
            /\ UNCHANGED wtask
       ELSE /\ wtask' = [wtask EXCEPT ![w] = Head(_tasks)]
            /\ wpc' = [wpc EXCEPT ![w] = "exec"]
    /\ UNCHANGED <<submitVars, task_count, _id_creator, unfinished_tasks, resultVars,
                   poolVars, clientVars, began_flagged>>

(* _execute_next_task: get() times out on an empty queue; `except Empty:   *)
(* pass` falls off the end of the function, which returns None to run().   *)
GetEmpty(w) ==
    /\ wpc[w] = "get"
    /\ _tasks = <<>>
    /\ wpc' = [wpc EXCEPT ![w] = AfterNextTask(w, "None")]
    /\ UNCHANGED <<submitVars, task_count, _id_creator, queueVars, resultVars, poolVars,
                   clientVars, wtask, began_flagged>>

(* ExecuteTask with `except Exception: pass`: an error is not stored. *)
ExecuteTaskDropsError(w) ==
    /\ wpc[w] = "exec"
    /\ LET t == wtask[w]
           out == CallFunc(t.func, t.args)
       IN IF out.ok
          THEN /\ _returns' = DictSet(_returns, t.id, out.val)
               /\ UNCHANGED _exceptions
          ELSE UNCHANGED <<_returns, _exceptions>>
    /\ wpc' = [wpc EXCEPT ![w] = "task_done"]
    /\ UNCHANGED <<submitVars, task_count, _id_creator, queueVars, poolVars, clientVars,
                   wtask, began_flagged>>

(* Task i has been taken off the queue: its callable was or is called. *)
Started(i) ==
    \/ \E p \in 1..Len(_returns) : _returns[p][1] = i
    \/ \E v \in Workers : /\ wpc[v] \in {"exec", "task_done", "check"}
                          /\ wtask[v].kind = "task" /\ wtask[v].id = i

(* The callable of t can return: "barrier" (value = id of the other task) *)
(* waits until the other task has started; sum and fail never wait.       *)
CanReturn(t) == t.func = "barrier" => Started(t.args)

(* _execute_task: the callable runs and its outcome is stored. *)
ExecuteTask(w) ==
    /\ wpc[w] = "exec"
    /\ CanReturn(wtask[w])
    /\ LET t == wtask[w]
           out == CallFunc(t.func, t.args)
       IN IF out.ok
          THEN /\ _returns' = DictSet(_returns, t.id, out.val)
               /\ UNCHANGED _exceptions
          ELSE /\ _exceptions' = DictSet(_exceptions, t.id, out.val)
               /\ UNCHANGED _returns
    /\ wpc' = [wpc EXCEPT ![w] = "task_done"]
    /\ UNCHANGED <<submitVars, task_count, _id_creator, queueVars, poolVars, clientVars,
                   wtask, began_flagged>>

(* TaskDone with task_done() inside the try block: skipped when the       *)
(* callable raised, and the error reaches run(), which ends the thread.   *)
TaskDoneSkippedOnError(w) ==
    /\ wpc[w] = "task_done"
    /\ IF CallFunc(wtask[w].func, wtask[w].args).ok
       THEN /\ unfinished_tasks' = unfinished_tasks - 1
            /\ wpc' = [wpc EXCEPT ![w] = "check"]
       ELSE /\ wpc' = [wpc EXCEPT ![w] = "dead"]
            /\ UNCHANGED unfinished_tasks
    /\ UNCHANGED <<submitVars, task_count, _id_creator, _tasks, resultVars, poolVars,
                   clientVars, wtask, began_flagged>>

(* _execute_task: self._tasks.task_done(); _execute_next_task then        *)
(* returns True to run().                                                 *)
TaskDone(w) ==
    /\ wpc[w] = "task_done"
    /\ unfinished_tasks' = unfinished_tasks - 1
    /\ wpc' = [wpc EXCEPT ![w] = "check"]
    /\ UNCHANGED <<submitVars, task_count, _id_creator, _tasks, resultVars, poolVars,
                   clientVars, wtask, began_flagged>>

(* run(): the loop condition after a task: _execute_next_task gave True. *)
Check(w) ==
    /\ wpc[w] = "check"
    /\ wpc' = [wpc EXCEPT ![w] = AfterNextTask(w, "True")]
    /\ wtask' = [wtask EXCEPT ![w] = NoTask]
    /\ UNCHANGED <<submitVars, task_count, _id_creator, queueVars, resultVars, poolVars,
                   clientVars, began_flagged>>

WorkerStep(w) == Get(w) \/ GetEmpty(w) \/ ExecuteTask(w) \/ TaskDone(w) \/ Check(w)

(***************************************************************************)
(* Client thread                                                           *)
(***************************************************************************)

(* submit(func, value): no check of the pool's state; the Queue is         *)
(* unbounded, so put() never raises Full.                                  *)
Submit(func) ==
    /\ cpc = "idle"
    /\ _id_creator < MaxTasks
    /\ task_count' = task_count + 1
    /\ _id_creator' = _id_creator + 1
    /\ issued' = Append(issued, _id_creator)
    /\ _tasks' = Append(_tasks, Task(_id_creator, func, task_count))
    /\ unfinished_tasks' = unfinished_tasks + 1
    /\ ret' = Ret("submit", "none", -1)
    /\ UNCHANGED <<sub, resultVars, poolVars, workerVars, cpc, call, ti,
                   shutdown_called, scope>>

(***************************************************************************)
(* Submitter threads: submit() step by step. `self.task_count += 1` is a   *)
(* load and a store; next() on itertools.count is one atomic call; put()   *)
(* is atomic under the Queue's lock.                                       *)
(***************************************************************************)

(* next(c) on an itertools.count at c: the value given, the counter after. *)
CountNext(c) == [value |-> c, counter |-> c + 1]

(* submit(func, value) is called: load of self.task_count *)
SubmitLoad(s, func) ==
    /\ sub[s].pc = "idle"
    /\ _id_creator
          + Cardinality({t \in Submitters : sub[t].pc \in {"store", "next"}})
          < MaxTasks
    /\ sub' = [sub EXCEPT ![s] = [pc |-> "store", loc |-> task_count,
                                  id |-> -1, func |-> func]]
    /\ UNCHANGED <<issued, task_count, _id_creator, queueVars, resultVars,
                   poolVars, workerVars, clientVars>>

(* store of self.task_count *)
SubmitStore(s) ==
    /\ sub[s].pc = "store"
    /\ task_count' = sub[s].loc + 1
    /\ sub' = [sub EXCEPT ![s].pc = "next"]
    /\ UNCHANGED <<issued, _id_creator, queueVars, resultVars, poolVars,
                   workerVars, clientVars>>

(* SubmitNext taking the id from self.task_count instead of the counter. *)
SubmitNextFromTaskCount(s) ==
    /\ sub[s].pc = "next"
    /\ sub' = [sub EXCEPT ![s].pc = "put", ![s].id = task_count - 1]
    /\ _id_creator' = CountNext(_id_creator).counter
    /\ issued' = Append(issued, task_count - 1)
    /\ UNCHANGED <<task_count, queueVars, resultVars, poolVars, workerVars,
                   clientVars>>

(* six.next(self._id_creator), the first element of the task tuple *)
SubmitNext(s) ==
    /\ sub[s].pc = "next"
    /\ sub' = [sub EXCEPT ![s].pc = "put",
                          ![s].id = CountNext(_id_creator).value]
    /\ _id_creator' = CountNext(_id_creator).counter
    /\ issued' = Append(issued, CountNext(_id_creator).value)
    /\ UNCHANGED <<task_count, queueVars, resultVars, poolVars, workerVars,
                   clientVars>>

(* self._tasks.put(tuple), and submit() returns *)
SubmitPut(s) ==
    /\ sub[s].pc = "put"
    /\ _tasks' = Append(_tasks, Task(sub[s].id, sub[s].func, sub[s].loc))
    /\ unfinished_tasks' = unfinished_tasks + 1
    /\ sub' = [sub EXCEPT ![s] = NotSubmitting]
    /\ UNCHANGED <<issued, task_count, _id_creator, resultVars, poolVars,
                   workerVars, clientVars>>

(* drain(): enters self._tasks.join() *)
DrainCall ==
    /\ cpc = "idle"
    /\ cpc' = "drain"
    /\ call' = "drain"
    /\ UNCHANGED <<submitVars, task_count, _id_creator, queueVars, resultVars, poolVars,
                   workerVars, ti, ret, shutdown_called, scope>>

(* join() returns once unfinished_tasks is zero. *)
DrainReturn ==
    /\ cpc = "drain"
    /\ unfinished_tasks = 0
    /\ cpc' = "idle"
    /\ call' = "none"
    /\ ret' = Ret("drain", "none", -1)
    /\ UNCHANGED <<submitVars, task_count, _id_creator, queueVars, resultVars, poolVars,
                   workerVars, ti, shutdown_called, scope>>

(* close(): starts with self.drain() *)
CloseCall ==
    /\ cpc = "idle"
    /\ cpc' = "close_drain"
    /\ call' = "close"
    /\ shutdown_called' = TRUE
    /\ UNCHANGED <<submitVars, task_count, _id_creator, queueVars, resultVars, poolVars,
                   workerVars, ti, ret, scope>>

(* close(): the join() of its drain() returns. *)
CloseDrained ==
    /\ cpc = "close_drain"
    /\ unfinished_tasks = 0
    /\ cpc' = "close_loop"
    /\ UNCHANGED <<submitVars, task_count, _id_creator, queueVars, resultVars, poolVars,
                   workerVars, call, ti, ret, shutdown_called, scope>>

(* __exit__ with `return True`. *)
exit_return_true == TRUE

(* __exit__: `return False`, so the with statement re-raises the error of *)
(* its body.                                                              *)
exit_return == FALSE

(* What the with statement raises once __exit__ has ended: the error of   *)
(* close() if it raised, else the error of the body unless __exit__       *)
(* returned a true value.                                                 *)
WithRaises(body_raised, close_raised) ==
    IF close_raised # "none" THEN close_raised
    ELSE IF body_raised /\ ~exit_return THEN "BodyError"
    ELSE "none"

(* How the client's call ends when its close() ended with close_raised:   *)
(* close() and terminate() end as close() did, __exit__ ends the with     *)
(* statement.                                                             *)
CloseEnds(close_raised) ==
    IF call = "__exit__"
    THEN Ret("with", WithRaises(scope = "exit_err", close_raised), -1)
    ELSE Ret(call, close_raised, -1)

(* close(): `while self.is_alive`; an error of is_alive ends the call;    *)
(* when no worker is alive the loop ends and self._workers = None.        *)
CloseLoop ==
    /\ cpc = "close_loop"
    /\ IF is_alive = "TypeError"
       THEN /\ cpc' = "idle"
            /\ ret' = CloseEnds("TypeError")
            /\ call' = "none"
            /\ scope' = IF call = "__exit__" THEN "out" ELSE scope
            /\ UNCHANGED _workers
       ELSE IF is_alive = "True"
       THEN /\ CyanideQueued < MaxCyanide
            /\ cpc' = "close_put"
            /\ UNCHANGED <<_workers, ret, call, scope>>
       ELSE /\ _workers' = WorkersNone
            /\ cpc' = "idle"
            /\ ret' = CloseEnds("none")
            /\ call' = "none"
            /\ scope' = IF call = "__exit__" THEN "out" ELSE scope
    /\ UNCHANGED <<submitVars, task_count, _id_creator, queueVars, resultVars, _run_event,
                   keyboard_interrupted, workerVars, ti, shutdown_called>>

(* close(): self._tasks.put(_CYANIDE) *)
ClosePut ==
    /\ cpc = "close_put"
    /\ _tasks' = Append(_tasks, _CYANIDE)
    /\ unfinished_tasks' = unfinished_tasks + 1
    /\ cpc' = "close_loop"
    /\ UNCHANGED <<submitVars, task_count, _id_creator, resultVars, poolVars, workerVars,
                   call, ti, ret, shutdown_called, scope>>

(* stop(): self.run_event is no attribute of the executor (it has          *)
(* _run_event), so the first statement raises AttributeError.              *)
Stop ==
    /\ cpc = "idle"
    /\ ret' = Ret("stop", "AttributeError", -1)
    /\ shutdown_called' = TRUE
    /\ UNCHANGED <<submitVars, task_count, _id_creator, queueVars, resultVars, poolVars,
                   workerVars, cpc, call, ti, scope>>

(* terminate(): `for worker in self._workers` *)
TerminateCall ==
    /\ cpc = "idle"
    /\ shutdown_called' = TRUE
    /\ IF _workers.none
       THEN /\ ret' = Ret("terminate", "TypeError", -1)
            /\ UNCHANGED <<cpc, call, ti>>
       ELSE /\ call' = "terminate"
            /\ cpc' = IF Len(_workers.list) = 0 THEN "close_drain"
                      ELSE "terminate_loop"
            /\ ti' = 1
            /\ UNCHANGED ret
    /\ UNCHANGED <<submitVars, task_count, _id_creator, queueVars, resultVars, poolVars,
                   workerVars, scope>>

(* terminate(): worker.keyboard_interrupted = True; after the last worker, *)
(* self.close()                                                            *)
TerminateFlag ==
    /\ cpc = "terminate_loop"
    /\ keyboard_interrupted' =
           [keyboard_interrupted EXCEPT ![_workers.list[ti]] = TRUE]
    /\ IF ti = Len(_workers.list)
       THEN cpc' = "close_drain" /\ ti' = 0
       ELSE cpc' = "terminate_loop" /\ ti' = ti + 1
    /\ UNCHANGED <<submitVars, task_count, _id_creator, queueVars, resultVars, _run_event,
                   _workers, workerVars, call, ret, shutdown_called, scope>>

(* raise_first() raising exceptions[-1], the last error of the view. *)
RaiseFirstRaisesLast ==
    /\ cpc = "idle"
    /\ ret' = [(IF exceptions # <<>>
                THEN Ret("raise_first", "task", exceptions[Len(exceptions)])
                ELSE Ret("raise_first", "none", -1))
               EXCEPT !.after_drain = (ret.op = "drain")]
    /\ UNCHANGED <<submitVars, task_count, _id_creator, queueVars, resultVars, poolVars,
                   workerVars, cpc, call, ti, shutdown_called, scope>>

(* raise_first() *)
RaiseFirst ==
    /\ cpc = "idle"
    /\ ret' = [(IF exceptions # <<>>
                THEN Ret("raise_first", "task", exceptions[1])
                ELSE Ret("raise_first", "none", -1))
               EXCEPT !.after_drain = (ret.op = "drain")]
    /\ UNCHANGED <<submitVars, task_count, _id_creator, queueVars, resultVars, poolVars,
                   workerVars, cpc, call, ti, shutdown_called, scope>>

(* __enter__: `return self`; the with statement of the class docstring,   *)
(* `with FixedThreadPoolExecutor(10) as executor`, binds it to its target. *)
Enter ==
    /\ cpc = "idle"
    /\ scope = "out"
    /\ ret.op = "init"
    /\ scope' = "in"
    /\ ret' = [Ret("__enter__", "none", -1) EXCEPT !.val = "self"]
    /\ UNCHANGED <<submitVars, task_count, _id_creator, queueVars, resultVars, poolVars,
                   workerVars, cpc, call, ti, shutdown_called>>

(* The body of the with statement ends, normally or by an error, and the  *)
(* with statement calls __exit__, whose first statement is self.close().  *)
ScopeExit(raised) ==
    /\ cpc = "idle"
    /\ scope = "in"
    /\ scope' = IF raised THEN "exit_err" ELSE "exit_ok"
    /\ call' = "__exit__"
    /\ cpc' = "close_drain"
    /\ shutdown_called' = TRUE
    /\ UNCHANGED <<submitVars, task_count, _id_creator, queueVars, resultVars, poolVars,
                   workerVars, ti, ret>>

(* Steps by which a call in progress advances. *)
ClientProgress ==
    DrainReturn \/ CloseDrained \/ CloseLoop \/ ClosePut \/ TerminateFlag

Next ==
    \/ \E w \in Workers : Get(w)
    \/ \E w \in Workers : GetEmpty(w)
    \/ \E w \in Workers : ExecuteTask(w)
    \/ \E w \in Workers : TaskDone(w)
    \/ \E w \in Workers : Check(w)
    \/ \E f \in Funcs : Submit(f)
    \/ DrainCall
    \/ DrainReturn
    \/ CloseCall
    \/ CloseDrained
    \/ CloseLoop
    \/ ClosePut
    \/ Stop
    \/ TerminateCall
    \/ TerminateFlag
    \/ RaiseFirst

Spec == Init /\ [][Next]_vars

(* The executor built and used by a with statement: __enter__ follows the *)
(* constructor, the body calls the operations, __exit__ ends the scope.   *)
ScopeNext ==
    \/ Enter
    \/ \E raised \in BOOLEAN : ScopeExit(raised)
    \/ (ret.op # "init" /\ Next)

ScopeSpec == Init /\ [][ScopeNext]_vars

(* The executor from the moment the constructor returns, when a worker    *)
(* thread may not have reached its loop yet.                              *)
StartNext ==
    \/ \E w \in Workers : Begin(w)
    \/ Next

StartSpec == StartInit /\ [][StartNext]_vars

(* submit(barrier, other): one of two tasks that each wait for the other  *)
(* to have started.                                                       *)
SubmitBarrier ==
    /\ cpc = "idle"
    /\ _id_creator \in {0, 1}
    /\ task_count' = task_count + 1
    /\ _id_creator' = _id_creator + 1
    /\ issued' = Append(issued, _id_creator)
    /\ _tasks' = Append(_tasks, Task(_id_creator, "barrier", 1 - _id_creator))
    /\ unfinished_tasks' = unfinished_tasks + 1
    /\ ret' = Ret("submit", "none", -1)
    /\ UNCHANGED <<sub, resultVars, poolVars, workerVars, cpc, call, ti,
                   shutdown_called, scope>>

(* An open pool given the two barrier tasks and drained. *)
BarrierNext ==
    \/ \E w \in Workers : WorkerStep(w)
    \/ SubmitBarrier
    \/ DrainCall
    \/ DrainReturn

BarrierSpec == Init /\ [][BarrierNext]_vars

(* Several threads submit the docstring's sum to an open pool while the   *)
(* workers run.                                                           *)
ConcurrentNext ==
    \/ \E w \in Workers : WorkerStep(w)
    \/ \E s \in Submitters : SubmitLoad(s, "sum")
    \/ \E s \in Submitters : SubmitStore(s)
    \/ \E s \in Submitters : SubmitNext(s)
    \/ \E s \in Submitters : SubmitPut(s)

SubmitSpec == Init /\ [][ConcurrentNext]_vars

(***************************************************************************)
(* Properties                                                              *)
(***************************************************************************)
Ids == 0..(_id_creator - 1)

Recorded(i) == DictHas(_returns, i) \/ DictHas(_exceptions, i)

Failing(t) == t.kind = "task" /\ ~CallFunc(t.func, t.args).ok

KeySet(d) == {d[i][1] : i \in 1..Len(d)}

MinKey(d) == CHOOSE k \in KeySet(d) : \A j \in KeySet(d) : k <= j

(* The key of d with exactly p - 1 smaller keys. *)
RankedKey(d, p) ==
    CHOOSE k \in KeySet(d) : Cardinality({j \in KeySet(d) : j < k}) = p - 1

AllDead == \A w \in Workers : ~WorkerAlive(w)

Returned(op) == cpc = "idle" /\ ret.op = op /\ ret.raised = "none"

(* C1: when drain() has just returned and N tasks were submitted before    *)
(* it, the two maps together hold exactly N entries and every id in        *)
(* 0..N-1 is a key of exactly one of them.                                 *)
DrainPostcondition ==
    Returned("drain") =>
        /\ Len(_returns) + Len(_exceptions) = _id_creator
        /\ Len(returns) + Len(exceptions) = _id_creator
        /\ \A i \in Ids : DictHas(_returns, i) # DictHas(_exceptions, i)

DrainReturnedWithBothOutcomes ==
    /\ Returned("drain")
    /\ _id_creator = MaxTasks
    /\ _returns # <<>>
    /\ _exceptions # <<>>

(* C4: whatever the completion order, the returns view (and the            *)
(* exceptions view) lists the recorded values in ascending order of task   *)
(* id: its p-th element is the value stored under the p-th smallest id.    *)
ViewsInSubmissionOrder ==
    /\ Len(returns) = Len(_returns)
    /\ \A p \in 1..Len(_returns) :
           returns[p] = DictGet(_returns, RankedKey(_returns, p))
    /\ Len(exceptions) = Len(_exceptions)
    /\ \A p \in 1..Len(_exceptions) :
           exceptions[p] = DictGet(_exceptions, RankedKey(_exceptions, p))

(* a later task's value was stored before an earlier task's value *)
CompletedOutOfOrder ==
    /\ Len(_returns) >= 2
    /\ _returns[1][1] > _returns[2][1]
    /\ returns[1] # _returns[1][2]

RaiseFirstAfterDrain ==
    [][(ret' # ret /\ ret'.op = "raise_first" /\ ret'.after_drain) =>
          /\ _returns' = _returns
          /\ _exceptions' = _exceptions
          /\ IF _exceptions = <<>>
             THEN ret'.raised = "none"
             ELSE /\ ret'.raised = "task"
                  /\ ret'.err = DictGet(_exceptions, MinKey(_exceptions))
    ]_vars

(* raise_first() after drain(), where the higher id had failed first *)
RaisedLowestOfTwo ==
    /\ ret.op = "raise_first"
    /\ ret.after_drain
    /\ ret.raised = "task"
    /\ Len(_exceptions) >= 2
    /\ _exceptions[1][1] > _exceptions[2][1]
    /\ ret.err = _exceptions[2][2]

(* C6: whenever close() returns, called directly or as the last statement *)
(* of terminate(), every task submitted before the call has its outcome   *)
(* recorded and no worker thread is alive.                                *)
CloseCompletion ==
    (Returned("close") \/ Returned("terminate")) =>
        /\ \A i \in Ids : Recorded(i)
        /\ AllDead

CloseReturnedAfterTasks ==
    /\ Returned("close")
    /\ _id_creator = MaxTasks
    /\ _exceptions # <<>>

(* C7: once close() has returned, the worker collection is an empty       *)
(* collection and reading is_alive yields false, not an error.            *)
StateAfterClose ==
    /\ Returned("close") => (~_workers.none /\ _workers.list = <<>>)
    /\ Returned("close") => is_alive = "False"

(* C8: a completed stop() has set the stop signal, every worker has       *)
(* terminated, and the call returned without raising.                     *)
StopTerminatesWorkers ==
    (cpc = "idle" /\ ret.op = "stop") =>
        /\ ret.raised = "none"
        /\ _run_event
        /\ AllDead

(* C9: terminate(), with any number of tasks still queued, eventually     *)
(* returns, and no worker is alive when it has. Stated for the calls      *)
(* made while every worker of the pool is still alive, so that a run      *)
(* violating it owes nothing to workers that had ended before the call.   *)
TerminateCompletes ==
    (call = "terminate" /\ cpc = "terminate_loop" /\ ti = 1
        /\ \A w \in Workers : wpc[w] # "dead")
      ~> (Returned("terminate") /\ AllDead)

(* C10: a submit() made after close() has returned fails with an error,   *)
(* and no task is in the queue of a pool whose workers are gone.          *)
SubmitAfterCloseFails ==
    /\ (ret.op = "submit" /\ _workers.none) => ret.raised # "none"
    /\ _workers.none => \A i \in 1..Len(_tasks) : _tasks[i].kind # "task"

(* C2: while close(), stop() and terminate() have never been called,      *)
(* every submitted task eventually has an entry in returns or exceptions, *)
(* and every drain() eventually returns.                                  *)
OpenPoolRunsEveryTask ==
    /\ \A i \in 0..(MaxTasks - 1) :
           (i < _id_creator /\ ~shutdown_called)
               ~> (Recorded(i) \/ shutdown_called)
    /\ (cpc = "drain") ~> (cpc = "idle")

DequeuesCyanide(w) ==
    /\ wpc[w] = "get" /\ wpc'[w] # "get"
    /\ _tasks # <<>> /\ Head(_tasks) = _CYANIDE /\ _tasks' = Tail(_tasks)

\* C12: a worker ends only by a sentinel it dequeued, by the stop signal
\* or by its own interrupt flag; in particular a timed get() that finds the
\* queue empty does not end it.
WorkerStopsOnlyOnSignal ==
    [][\A w \in Workers :
          (WorkerAlive(w) /\ wpc'[w] = "dead") =>
              (DequeuesCyanide(w) \/ _run_event \/ keyboard_interrupted[w])]_vars

(* Workers that took task i off the queue and have not left its iteration. *)
Holders(i) ==
    {w \in Workers : /\ wpc[w] \in {"exec", "task_done", "check"}
                     /\ wtask[w].kind = "task" /\ wtask[w].id = i}

(* Entries of the queue that carry task i. *)
Queued(i) == {p \in 1..Len(_tasks) : _tasks[p].kind = "task" /\ _tasks[p].id = i}

ExactlyOnceState ==
    /\ \A i \in Ids :
          /\ Cardinality(Queued(i)) + Cardinality(Holders(i)) <= 1
          /\ Queued(i) # {} => ~Recorded(i)
          /\ \A w \in Holders(i) : (wpc[w] = "exec") <=> ~Recorded(i)
          /\ ~(DictHas(_returns, i) /\ DictHas(_exceptions, i))
    /\ Cardinality(KeySet(_returns)) = Len(_returns)
    /\ Cardinality(KeySet(_exceptions)) = Len(_exceptions)
    /\ KeySet(_returns) \cup KeySet(_exceptions) \subseteq Ids

\* C13: every task is taken off the queue at most once and by one worker,
\* never returns to the queue, has its callable run at most once (by the
\* worker holding it, which stores the one outcome), and its id is stored
\* once in one of the two dicts: no entry is overwritten or removed and no
\* id is a key of both.
ExactlyOnce ==
    /\ []ExactlyOnceState
    /\ [][/\ \A i \in Ids :
               /\ Queued(i) = {} => Queued(i)' = {}
               /\ (Recorded(i)' /\ ~Recorded(i)) =>
                      \E w \in Holders(i) :
                          wpc[w] = "exec" /\ wpc'[w] = "task_done"
          /\ \A p \in 1..Len(_returns) :
               Len(_returns') >= p /\ _returns'[p] = _returns[p]
          /\ \A p \in 1..Len(_exceptions) :
               Len(_exceptions') >= p /\ _exceptions'[p] = _exceptions[p]]_vars

TwoWorkersOneTaskEach ==
    /\ \E v, w \in Workers :
          /\ v # w /\ wpc[v] = "check" /\ wpc[w] = "check"
          /\ wtask[v].id = 0 /\ wtask[w].id = 1
    /\ Len(_returns) = 1 /\ Len(_exceptions) = 1

(* Submitter threads that hold the tuple of task i and have not put it. *)
Putting(i) == {t \in Submitters : sub[t].pc = "put" /\ sub[t].id = i}

(* Task i has been taken off the queue by a worker. *)
Dequeued(i) == i \in Ids /\ Putting(i) = {} /\ Queued(i) = {}

\* C14: tasks leave the queue in ascending id order: a task is never
\* dequeued while a task with a smaller id has not been dequeued yet,
\* whatever the number of workers and of threads calling submit().
FifoByIdOrder ==
    \A i, j \in Ids : (i < j /\ Dequeued(j)) => Dequeued(i)

\* C15: the ids given out are 0, 1, 2, ... in this order, one per submit()
\* that reached next(): no id is given twice, none is skipped, every id is
\* larger than all ids given before it (so larger than the id of any
\* submit() that had returned), and no two task tuples carry the same id,
\* also when several threads are inside submit() at once.
SequenceIds ==
    /\ [](/\ \A k \in 1..Len(issued) : issued[k] = k - 1
          /\ \A i \in Ids :
                Cardinality(Putting(i)) + Cardinality(Queued(i))
                    + Cardinality(Holders(i)) <= 1
          /\ \A t \in Submitters : sub[t].pc = "put" => sub[t].id \in Ids
          /\ \A p \in 1..Len(_tasks) :
                _tasks[p].kind = "task" => _tasks[p].id \in Ids)
    /\ [][Len(issued') # Len(issued) =>
              /\ Len(issued') = Len(issued) + 1
              /\ \A k \in 1..Len(issued) : issued'[k] = issued[k]
              /\ \A k \in 1..Len(issued) : issued'[Len(issued')] > issued[k]]_vars

TwoSubmittersHoldIds ==
    \E t, u \in Submitters :
        /\ t # u /\ sub[t].pc = "put" /\ sub[u].pc = "put"
        /\ sub[t].id = 0 /\ sub[u].id = 1
        /\ sub[t].loc = sub[u].loc

(* Tasks put on the queue for which task_done() has not been called. *)
NotMarkedDone ==
    {i \in Ids : \/ Queued(i) # {}
                 \/ \E w \in Holders(i) : wpc[w] \in {"exec", "task_done"}}

\* C16: the count join() waits on is the number of tasks enqueued and not
\* yet marked done; sentinels are not counted, during and after close() too.
PendingCountsTasksOnly == unfinished_tasks = Cardinality(NotMarkedDone)

\* C17: a worker whose loop iteration began with the stop signal or its own
\* interrupt flag set ends in that iteration and takes nothing off the
\* queue; a callable that is running goes on to store its outcome.
FlagsCheckedAtTop ==
    [][\A w \in Workers :
          /\ (began_flagged[w] /\ wpc[w] = "get" /\ wpc'[w] # "get") =>
                 (wpc'[w] = "dead" /\ _tasks' = _tasks)
          /\ (wpc[w] = "exec" /\ wpc'[w] # "exec") =>
                 (wpc'[w] = "task_done" /\ Recorded(wtask[w].id)')]_vars

\* C18: the step that takes a sentinel off the queue is the step of one
\* worker; it runs no callable and stores nothing, leaves the pending count
\* alone (no task_done()), and ends that worker; an ended worker stays
\* ended, and only a worker waiting in get() takes an entry off the queue,
\* so no worker takes a second sentinel.
SentinelProtocol ==
    [][/\ \A w \in Workers :
             DequeuesCyanide(w) =>
                 /\ wpc'[w] = "dead"
                 /\ \A v \in Workers \ {w} : wpc'[v] = wpc[v]
                 /\ wtask' = wtask
                 /\ _returns' = _returns /\ _exceptions' = _exceptions
                 /\ unfinished_tasks' = unfinished_tasks
       /\ \A w \in Workers : wpc[w] = "dead" => wpc'[w] = "dead"
       /\ Len(_tasks') < Len(_tasks) =>
             /\ _tasks' = Tail(_tasks)
             /\ \E w \in Workers :
                   /\ wpc[w] = "get" /\ wpc'[w] # "get"
                   /\ \A v \in Workers \ {w} : wpc'[v] = wpc[v]]_vars

WorkerEndedBySentinel ==
    /\ Returned("close")
    /\ _id_creator > 0
    /\ _tasks = <<>> /\ NotMarkedDone = {}
    /\ unfinished_tasks = 1

(* The worker threads that are alive. *)
LiveWorkers == {w \in Workers : WorkerAlive(w)}

\* C19: while a drain() is in progress that directly follows a returned
\* drain() (nothing submitted in between), it never has to wait (the pending
\* count is zero), and up to its return the two dicts and the set of live
\* workers stay as they were.
DrainIdempotent ==
    [][(/\ ret.op = "drain" /\ ret.raised = "none"
        /\ cpc = "drain" /\ cpc' \in {"drain", "idle"}) =>
           /\ unfinished_tasks = 0 /\ unfinished_tasks' = 0
           /\ _returns' = _returns /\ _exceptions' = _exceptions
           /\ LiveWorkers' = LiveWorkers]_vars

(* The same without the clause on the live workers. *)
DrainIdempotentOnResults ==
    [][(/\ ret.op = "drain" /\ ret.raised = "none"
        /\ cpc = "drain" /\ cpc' \in {"drain", "idle"}) =>
           /\ unfinished_tasks = 0 /\ unfinished_tasks' = 0
           /\ _returns' = _returns /\ _exceptions' = _exceptions]_vars

\* C20: in a pool of at least two workers, once the two barrier tasks are
\* submitted both get their outcome recorded and the pending count comes
\* to zero, so that drain() returns.
BarrierTasksComplete ==
    (Len(_workers.list) >= 2 /\ _id_creator = 2) ~>
        (Recorded(0) /\ Recorded(1) /\ unfinished_tasks = 0)

(* Both barrier tasks are being executed, on two workers. *)
BothBarrierTasksExecuting ==
    \E v, w \in Workers :
        /\ v # w /\ wpc[v] = "exec" /\ wpc[w] = "exec"
        /\ wtask[v].func = "barrier" /\ wtask[w].func = "barrier"
        /\ wtask[v].id # wtask[w].id

(* Once both barrier tasks are executing, both complete. *)
BarrierTasksCompleteOnceRunning ==
    BothBarrierTasksExecuting ~>
        (Recorded(0) /\ Recorded(1) /\ unfinished_tasks = 0)

\* C21: whenever no thread is inside submit(), task_count is the number of
\* tasks enqueued, which is the number of ids given out: no increment is
\* lost, also with several threads calling submit().
TaskCountMatchesEnqueued ==
    (\A t \in Submitters : sub[t].pc = "idle") =>
        (task_count = Len(issued) /\ task_count = _id_creator)

(* Threads are scheduled: every worker thread and a client blocked inside  *)
(* a call keep running; the client is free never to make another call.     *)
FairSpec ==
    /\ Spec
    /\ \A w \in Workers : WF_vars(WorkerStep(w))
    /\ WF_vars(ClientProgress)

(* BarrierSpec with the threads scheduled in the same way. *)
BarrierFairSpec ==
    /\ BarrierSpec
    /\ \A w \in Workers : WF_vars(WorkerStep(w))
    /\ WF_vars(ClientProgress)

====
